---- MODULE Spec2Model ----
(***************************************************************************)
(* Cohere provider adapter, rig-core/src/providers/cohere.rs.              *)
(*                                                                         *)
(* The adapter is a stateless leaf: a Client holding a base URL, an        *)
(* embedding call and a completion call, each one HTTP round trip, and     *)
(* the pure conversions they use (model name parsing and rendering, URL    *)
(* joining, tool-definition conversion, role mapping, response             *)
(* classification).  The model follows one call of the client's API from   *)
(* its start to its outcome.                                               *)
(*                                                                         *)
(* Text is modelled as TLA+ strings where only equality matters (model     *)
(* names, messages, documents) and as sequences of one-character strings   *)
(* where the code edits the characters (the URL).  JSON values are tagged  *)
(* records: tag says which kind of value is there.                         *)
(***************************************************************************)
EXTENDS Integers, Sequences, FiniteSets, TLC

VARIABLES
    base_url,   \* Client.base_url, as a sequence of characters
    pc,         \* where the call is: idle, parsed, awaiting, arrived, done, panicked
    op,         \* the API operation called: none, from_str, post, convert, embed_documents, completion
    input,      \* the arguments of the call
    wire,       \* the HTTP requests the call has sent, in order
    resp,       \* what came back for the request
    result      \* the value the call returned

vars == <<base_url, pc, op, input, wire, resp, result>>

-----------------------------------------------------------------------------
(* Bounds of the model *)

MaxDocs == 2
MaxEmb == 2
MaxToolCalls == 2
MaxSlash == 1
MaxTypes == 2

SeqsUpTo(S, n) == UNION {[1..k -> S] : k \in 0..n}

Repeat(c, n) == [i \in 1..n |-> c]

-----------------------------------------------------------------------------
(* Results of a call *)

NoResult == [kind |-> "none"]

Ok(v) == [kind |-> "Ok", val |-> v]

BadModel(s) == [kind |-> "Err", err |-> "BadModel", info |-> s]

DocumentError(expected, got) ==
    [kind |-> "Err", err |-> "DocumentError", info |-> <<expected, got>>]

ProviderError(message) == [kind |-> "Err", err |-> "ProviderError", info |-> message]

\* The reqwest::Error that a ? returns to the caller (converted by From into
\* the error type of the call).  cause says which step produced it: send,
\* status (error_for_status), body (the body could not be read) or decode
\* (the body is not an ApiResponse).
ReqwestError(cause) == [kind |-> "Err", err |-> "ReqwestError", info |-> cause]

-----------------------------------------------------------------------------
(* Client: base URL and post *)

COHERE_API_BASE_URL ==
    <<"h","t","t","p","s",":","/","/","a","p","i",".","c","o","h","e","r","e",".","a","i">>

PATH_EMBED == <<"/","v","1","/","e","m","b","e","d">>

PATH_CHAT == <<"/","v","1","/","c","h","a","t">>

\* str::replace("//", "/"): the matches are found left to right and do not
\* overlap; what a replacement produced is not scanned again.
RECURSIVE replace(_)
replace(s) ==
    IF Len(s) < 2 THEN s
    ELSE IF s[1] = "/" /\ s[2] = "/"
         THEN <<"/">> \o replace(SubSeq(s, 3, Len(s)))
         ELSE <<s[1]>> \o replace(Tail(s))

\* format!("{}/{}", self.base_url, path).replace("//", "/")
post(base, path) == replace(base \o <<"/">> \o path)

\* Base URLs a client is built with (Client::new, Client::from_url) in the
\* URL specification: with and without a scheme, a port or a path, each with
\* 0..MaxSlash trailing separators.
BaseStems ==
    { COHERE_API_BASE_URL, <<"h",":","/","/","a">>, <<"a">>, <<"h",":","/","/","a","/","b">>,
      <<"h",":","/","/","a",":","8">> }

BaseUrls == {b \o Repeat("/", n) : b \in BaseStems, n \in 0..MaxSlash}

\* Paths handed to post, with 0..MaxSlash leading separators.
PathStems ==
    { <<"v">>, <<"v","/","e">>, <<"v","1","/","c","h","a","t">>,
      <<"v","1","/","e","m","b","e","d">>, <<"v","/">> }

Paths == {Repeat("/", n) \o p : p \in PathStems, n \in 0..MaxSlash}

\* Base URLs of the client in the call specification: the production URL of
\* Client::new and a from_url override.
ClientUrls == {COHERE_API_BASE_URL, <<"h",":","/","/","m","/">>}

-----------------------------------------------------------------------------
(* CohereEmbeddingModel: the enumeration, FromStr and Display *)

Models ==
    { "EmbedEnglishV3", "EmbedEnglishLightV3", "EmbedMultilingualV3",
      "EmbedMultilingualLightV3", "EmbedEnglishV2", "EmbedEnglishLightV2",
      "EmbedMultilingualV2" }

\* Mutant of from_str: two arms of the match are swapped.
from_str_swapped(s) ==
    CASE s = "embed-english-v3.0" -> Ok("EmbedEnglishLightV3")
      [] s = "embed-english-light-v3.0" -> Ok("EmbedEnglishV3")
      [] s = "embed-multilingual-v3.0" -> Ok("EmbedMultilingualV3")
      [] s = "embed-multilingual-light-v3.0" -> Ok("EmbedMultilingualLightV3")
      [] s = "embed-english-v2.0" -> Ok("EmbedEnglishV2")
      [] s = "embed-english-light-v2.0" -> Ok("EmbedEnglishLightV2")
      [] s = "embed-multilingual-v2.0" -> Ok("EmbedMultilingualV2")
      [] OTHER -> BadModel(s)

from_str(s) ==
    CASE s = "embed-english-v3.0" -> Ok("EmbedEnglishV3")
      [] s = "embed-english-light-v3.0" -> Ok("EmbedEnglishLightV3")
      [] s = "embed-multilingual-v3.0" -> Ok("EmbedMultilingualV3")
      [] s = "embed-multilingual-light-v3.0" -> Ok("EmbedMultilingualLightV3")
      [] s = "embed-english-v2.0" -> Ok("EmbedEnglishV2")
      [] s = "embed-english-light-v2.0" -> Ok("EmbedEnglishLightV2")
      [] s = "embed-multilingual-v2.0" -> Ok("EmbedMultilingualV2")
      [] OTHER -> BadModel(s)

fmt(m) ==
    CASE m = "EmbedEnglishLightV3" -> "embed-english-light-v3.0"
      [] m = "EmbedEnglishV3" -> "embed-english-v3.0"
      [] m = "EmbedMultilingualLightV3" -> "embed-multilingual-light-v3.0"
      [] m = "EmbedMultilingualV3" -> "embed-multilingual-v3.0"
      [] m = "EmbedEnglishV2" -> "embed-english-v2.0"
      [] m = "EmbedEnglishLightV2" -> "embed-english-light-v2.0"
      [] m = "EmbedMultilingualV2" -> "embed-multilingual-v2.0"

\* Strings handed to from_str: what Display renders, and strings it never
\* renders (a variant name, a name without its version suffix, a completion
\* model name, the empty string).
ModelStrings ==
    {fmt(m) : m \in Models}
        \cup {"EmbedEnglishV3", "embed-english-v3", "embed-english-v1.0", "command-r", ""}

InputTypes == {"search_document"}

-----------------------------------------------------------------------------
(* The vendor's response *)

\* A message field of a JSON body: absent, a string, or some other value.
NoMessage == [tag |-> "absent", s |-> ""]

StrMessage(m) == [tag |-> "string", s |-> m]

OtherMessage == [tag |-> "other", s |-> ""]

Messages == {"invalid api token", ""}

\* Vec<f64> values a vendor returns.
Vecs == {<<1>>, <<2>>}

\* The fields of a body that fit EmbeddingResponse (id, embeddings, texts
\* present and well typed): payload.present, with the embeddings as val.
\* A body that does not fit has payload.present = FALSE.
NoEmbedPayload == [present |-> FALSE, val |-> <<>>]

EmbedPayloads == {[present |-> TRUE, val |-> e] : e \in SeqsUpTo(Vecs, MaxEmb)}

ToolCalls ==
    { [name |-> "search", parameters |-> "{q:x}"],
      [name |-> "other", parameters |-> "{}"] }

Texts == {"", "hello"}

FinishReasons == {"COMPLETE", "MAX_TOKENS"}

\* The fields of a body that fit CompletionResponse (text, generation_id,
\* finish_reason present; tool_calls defaults to empty).
NoChatPayload ==
    [present |-> FALSE,
     val |-> [text |-> "", tool_calls |-> <<>>, finish_reason |-> ""]]

ChatPayloads ==
    { [present |-> TRUE,
       val |-> [text |-> t, tool_calls |-> tc, finish_reason |-> f]] :
        t \in Texts, tc \in SeqsUpTo(ToolCalls, MaxToolCalls), f \in FinishReasons }

\* JSON bodies: one that fits the success schema carries a message field or
\* not (serde ignores unknown fields); one that does not fit carries no
\* message, a string message, or a message that is not a string.
BodiesOf(payloads, nopayload) ==
    {[payload |-> p, message |-> m] :
        p \in payloads, m \in {NoMessage} \cup {StrMessage(x) : x \in {"invalid api token"}}}
    \cup
    {[payload |-> nopayload, message |-> m] :
        m \in {NoMessage, OtherMessage} \cup {StrMessage(x) : x \in Messages}}

Statuses == {200, 300, 404, 500}

NoResponse ==
    [kind |-> "none", status |-> 0, readable |-> FALSE,
     body |-> [payload |-> NoEmbedPayload, message |-> NoMessage]]

\* What can come back for one request: the send fails (no response), or a
\* response with a status and a body that cannot be read to its end, or a
\* response with a status and a JSON body.
ResponsesOf(payloads, nopayload) ==
    {[kind |-> "send_failed", status |-> 0, readable |-> FALSE,
      body |-> [payload |-> nopayload, message |-> NoMessage]]}
    \cup
    {[kind |-> "response", status |-> st, readable |-> FALSE,
      body |-> [payload |-> nopayload, message |-> NoMessage]] : st \in Statuses}
    \cup
    {[kind |-> "response", status |-> st, readable |-> TRUE, body |-> b] :
        st \in Statuses, b \in BodiesOf(payloads, nopayload)}

\* Mutant of error_for_status: only server errors (5xx) are errors.
error_for_status_server_only(status) == status >= 500 /\ status <= 599

\* reqwest::Response::error_for_status: an error iff the status is a client
\* error (4xx) or a server error (5xx).
error_for_status(status) == status >= 400 /\ status <= 599

\* Mutant of ApiResponse: the error variant is tried first.
ApiResponse_error_first(body) ==
    IF body.message.tag = "string"
    THEN [variant |-> "Err", val |-> body.payload.val, message |-> body.message.s]
    ELSE IF body.payload.present
         THEN [variant |-> "Ok", val |-> body.payload.val, message |-> ""]
         ELSE [variant |-> "none", val |-> body.payload.val, message |-> ""]

\* #[serde(untagged)] enum ApiResponse<T> { Ok(T), Err(ApiErrorResponse) }:
\* the variants are tried in order, and the first that fits is taken.
ApiResponse(body) ==
    IF body.payload.present
    THEN [variant |-> "Ok", val |-> body.payload.val, message |-> ""]
    ELSE IF body.message.tag = "string"
         THEN [variant |-> "Err", val |-> body.payload.val, message |-> body.message.s]
         ELSE [variant |-> "none", val |-> body.payload.val, message |-> ""]

\* .send().await? .error_for_status()? .json::<ApiResponse<T>>().await?
\* The first failing step ends the call; otherwise the classified body.
Received(r) ==
    IF r.kind = "send_failed" THEN [step |-> "send", api |-> ApiResponse(r.body)]
    ELSE IF error_for_status(r.status) THEN [step |-> "status", api |-> ApiResponse(r.body)]
    ELSE IF ~r.readable THEN [step |-> "body", api |-> ApiResponse(r.body)]
    ELSE IF ApiResponse(r.body).variant = "none"
         THEN [step |-> "decode", api |-> ApiResponse(r.body)]
         ELSE [step |-> "parsed", api |-> ApiResponse(r.body)]

-----------------------------------------------------------------------------
(* EmbeddingModel::embed_documents *)

Documents == SeqsUpTo({"a", "b"}, MaxDocs)

Min(a, b) == IF a < b THEN a ELSE b

\* Mutant of zip: the embeddings are paired from the last one backwards.
zip_misaligned(embeddings, documents) ==
    [i \in 1..Min(Len(embeddings), Len(documents)) |->
        [document |-> documents[i], vec |-> embeddings[Len(embeddings) + 1 - i]]]

\* embeddings.into_iter().zip(documents.into_iter()).map(..).collect()
zip(embeddings, documents) ==
    [i \in 1..Min(Len(embeddings), Len(documents)) |->
        [document |-> documents[i], vec |-> embeddings[i]]]

embed_request(url, model, input_type, documents) ==
    [url |-> post(url, PATH_EMBED),
     body |-> [model |-> fmt(model), texts |-> documents, input_type |-> input_type]]

\* Mutant of embed_match: the count check is left out, so zip truncates.
embed_match_unchecked(documents, api) ==
    IF api.variant = "Ok"
    THEN Ok([i \in 1..Min(Len(api.val), Len(documents)) |->
                [document |-> documents[i], vec |-> api.val[i]]])
    ELSE ProviderError(api.message)

\* The match on the classified response.
embed_match(documents, api) ==
    IF api.variant = "Ok"
    THEN IF Len(api.val) # Len(documents)
         THEN DocumentError(Len(documents), Len(api.val))
         ELSE Ok(zip(api.val, documents))
    ELSE ProviderError(api.message)

embed_outcome(documents, r) ==
    IF Received(r).step = "parsed"
    THEN embed_match(documents, Received(r).api)
    ELSE ReqwestError(Received(r).step)

-----------------------------------------------------------------------------
(* Tool definitions: the generic JSON form and its conversion *)

\* An entry of a JSON array of strings: a string, or a value that is not one.
StrEntry(x) == [isStr |-> TRUE, s |-> x]

OtherEntry == [isStr |-> FALSE, s |-> "5"]

\* The "type" of a parameter schema: absent, a string, an array, or another
\* JSON value.
NoType == [tag |-> "absent", s |-> "", a |-> <<>>]

StrType(x) == [tag |-> "string", s |-> x, a |-> <<>>]

ArrType(entries) == [tag |-> "array", s |-> "", a |-> entries]

OtherType == [tag |-> "other", s |-> "", a |-> <<>>]

\* The "description" of a parameter schema.
NoDescription == [tag |-> "absent", s |-> ""]

StrDescription(d) == [tag |-> "string", s |-> d]

OtherDescription == [tag |-> "other", s |-> ""]

\* parameters.required: absent, an array, or another JSON value.
NoRequired == [tag |-> "absent", a |-> <<>>]

ArrRequired(entries) == [tag |-> "array", a |-> entries]

OtherRequired == [tag |-> "other", a |-> <<>>]

\* parameters.properties: absent, an object (a map from parameter names to
\* parameter schemas), or another JSON value.
NoProperties == [tag |-> "absent", obj |-> <<>>]

ObjProperties(f) == [tag |-> "object", obj |-> f]

OtherProperties == [tag |-> "other", obj |-> <<>>]

KnownTypes == {"string", "number", "integer", "boolean", "array", "object"}

convert_type_str(type) == IF type \in KnownTypes THEN type ELSE "string"

\* types.iter().find(|t| t.as_str() != Some("null")): the index of the first
\* entry that is not the string "null", 0 when there is none.
RECURSIVE find_from(_, _)
find_from(types, i) ==
    IF i > Len(types) THEN 0
    ELSE IF ~(types[i].isStr /\ types[i].s = "null") THEN i
    ELSE find_from(types, i + 1)

find(types) == find_from(types, 1)

\* Mutant of convert_type: the first entry of an array is taken, "null" or not.
convert_type_first_entry(type) ==
    CASE type.tag = "string" -> convert_type_str(type.s)
      [] type.tag = "array" ->
            convert_type_str(
                IF Len(type.a) > 0 /\ type.a[1].isStr THEN type.a[1].s ELSE "string")
      [] OTHER -> "string"

convert_type(type) ==
    CASE type.tag = "string" -> convert_type_str(type.s)
      [] type.tag = "array" ->
            convert_type_str(
                IF find(type.a) # 0 /\ type.a[find(type.a)].isStr
                THEN type.a[find(type.a)].s
                ELSE "string")
      [] OTHER -> "string"

\* get("required").and_then(as_array).map(filter_map(as_str)).unwrap_or_default()
maybe_required(parameters) ==
    IF parameters.required.tag = "array"
    THEN SelectSeq(parameters.required.a, LAMBDA e : e.isStr)
    ELSE <<>>

contains(required, argname) == \E i \in 1..Len(required) : required[i].s = argname

\* Mutant of panics: a parameter without a type is let through.
panics_without_type(tool) ==
    \/ tool.parameters.properties.tag # "object"
    \/ \E argname \in DOMAIN tool.parameters.properties.obj :
          tool.parameters.properties.obj[argname].description.tag # "string"

\* The expect calls of the conversion: which tool definitions make it panic.
panics(tool) ==
    \/ tool.parameters.properties.tag = "absent"
    \/ tool.parameters.properties.tag # "object"
    \/ \E argname \in DOMAIN tool.parameters.properties.obj :
          LET argdef == tool.parameters.properties.obj[argname] IN
             \/ argdef.description.tag = "absent"
             \/ argdef.description.tag # "string"
             \/ argdef.type.tag = "absent"

Parameter(argname, argdef, required) ==
    [description |-> argdef.description.s,
     type |-> convert_type(argdef.type),
     required |-> contains(required, argname)]

\* impl From<completion::ToolDefinition> for ToolDefinition
ToolDefinition_from(tool) ==
    IF panics(tool) THEN [kind |-> "panic"]
    ELSE Ok([name |-> tool.name,
             description |-> tool.description,
             parameter_definitions |->
                [argname \in DOMAIN tool.parameters.properties.obj |->
                    Parameter(argname, tool.parameters.properties.obj[argname],
                              maybe_required(tool.parameters))]])

\* The generic tool definitions of the conversion specification.
TypeEntries == {StrEntry("null"), StrEntry("integer"), OtherEntry}

Types ==
    {StrType(x) : x \in KnownTypes \cup {"null", "date"}}
        \cup {ArrType(a) : a \in SeqsUpTo(TypeEntries, MaxTypes)}
        \cup {OtherType}

ArgDefs ==
    {[description |-> StrDescription("d"), type |-> t] : t \in Types}
        \cup { [description |-> NoDescription, type |-> StrType("string")],
               [description |-> OtherDescription, type |-> StrType("string")],
               [description |-> StrDescription("d"), type |-> NoType] }

ArgNames == {"x", "y"}

Properties ==
    {NoProperties, OtherProperties}
        \cup {ObjProperties(f) : f \in UNION {[names -> ArgDefs] : names \in SUBSET ArgNames}}

Requireds ==
    { NoRequired, OtherRequired, ArrRequired(<<>>), ArrRequired(<<StrEntry("x")>>),
      ArrRequired(<<OtherEntry, StrEntry("y"), StrEntry("z")>>) }

ToolDefs ==
    {[name |-> "t", description |-> "a tool",
      parameters |-> [required |-> r, properties |-> p]] :
        r \in Requireds, p \in Properties}

\* The tool lists of a completion request in the call specification: no
\* tool, well-formed tools, and each way a tool definition is malformed.
GoodTool(type, required) ==
    [name |-> "t", description |-> "a tool",
     parameters |->
        [required |-> required,
         properties |-> ObjProperties([n \in {"x"} |->
            [description |-> StrDescription("d"), type |-> type]])]]

BadTool(properties) ==
    [name |-> "t", description |-> "a tool",
     parameters |-> [required |-> NoRequired, properties |-> properties]]

CallTools ==
    { <<>>,
      <<GoodTool(StrType("string"), ArrRequired(<<StrEntry("x")>>))>>,
      <<GoodTool(ArrType(<<StrEntry("null"), StrEntry("integer")>>), NoRequired),
        GoodTool(StrType("date"), NoRequired)>>,
      <<BadTool(NoProperties)>>,
      <<BadTool(OtherProperties)>>,
      <<GoodTool(StrType("string"), NoRequired),
        BadTool(ObjProperties([n \in {"x"} |->
            [description |-> NoDescription, type |-> StrType("string")]]))>>,
      <<BadTool(ObjProperties([n \in {"x"} |->
            [description |-> OtherDescription, type |-> StrType("string")]]))>>,
      <<BadTool(ObjProperties([n \in {"x", "y"} |->
            IF n = "x" THEN [description |-> StrDescription("d"), type |-> StrType("string")]
                       ELSE [description |-> StrDescription("d"), type |-> NoType]]))>> }

-----------------------------------------------------------------------------
(* Chat messages and the completion request *)

\* impl From<completion::Message> for Message
Message_from(message) ==
    [role |-> CASE message.role = "system" -> "SYSTEM"
                [] message.role = "user" -> "USER"
                [] message.role = "assistant" -> "CHATBOT"
                [] OTHER -> "USER",
     message |-> message.content]

ChatHistories ==
    { <<>>,
      <<[role |-> "system", content |-> "s"]>>,
      <<[role |-> "user", content |-> "u"], [role |-> "assistant", content |-> "a"]>>,
      <<[role |-> "tool", content |-> "t"]>> }

\* json_utils::merge(a, b) on two JSON objects: the keys of b are inserted
\* into a, replacing the values of the keys a already has.
merge(a, b) ==
    [k \in DOMAIN a \cup DOMAIN b |-> IF k \in DOMAIN b THEN b[k] ELSE a[k]]

NoParams == [present |-> FALSE, val |-> [temperature |-> "0.9"]]

AdditionalParams ==
    {NoParams, [present |-> TRUE, val |-> [temperature |-> "0.9", k |-> "40"]]}

CompletionRequests ==
    {[preamble |-> "be brief", prompt |-> "hi", documents |-> <<>>,
      chat_history |-> h, temperature |-> "0.5", tools |-> t,
      additional_params |-> p] :
        h \in ChatHistories, t \in CallTools, p \in AdditionalParams}

\* The json! body of the request; the tools are converted while it is built.
request_json(model, req) ==
    [model |-> model,
     preamble |-> req.preamble,
     message |-> req.prompt,
     documents |-> req.documents,
     chat_history |-> [i \in 1..Len(req.chat_history) |-> Message_from(req.chat_history[i])],
     temperature |-> req.temperature,
     tools |-> [i \in 1..Len(req.tools) |-> ToolDefinition_from(req.tools[i]).val]]

chat_request(url, model, req) ==
    [url |-> post(url, PATH_CHAT),
     body |-> IF req.additional_params.present
              THEN merge(request_json(model, req), req.additional_params.val)
              ELSE request_json(model, req)]

\* Building the json! body panics when the conversion of a tool does.
request_panics(req) == \E i \in 1..Len(req.tools) : panics(req.tools[i])

\* Mutant of CompletionResponse_from: the last tool call is taken.
CompletionResponse_from_last(response) ==
    [choice |->
        IF Len(response.tool_calls) # 0
        THEN [variant |-> "ToolCall",
              name |-> response.tool_calls[Len(response.tool_calls)].name,
              parameters |-> response.tool_calls[Len(response.tool_calls)].parameters,
              text |-> ""]
        ELSE [variant |-> "Message", name |-> "", parameters |-> "",
              text |-> response.text],
     raw_response |-> response]

\* impl From<CompletionResponse> for completion::CompletionResponse<CompletionResponse>
CompletionResponse_from(response) ==
    [choice |->
        IF Len(response.tool_calls) # 0
        THEN [variant |-> "ToolCall",
              name |-> Head(response.tool_calls).name,
              parameters |-> Head(response.tool_calls).parameters,
              text |-> ""]
        ELSE [variant |-> "Message", name |-> "", parameters |-> "",
              text |-> response.text],
     raw_response |-> response]

\* Mutant of completion_match: the vendor's message is replaced by a fixed text.
completion_match_fixed_text(api) ==
    IF api.variant = "Ok"
    THEN Ok([choice |->
                IF Len(api.val.tool_calls) # 0
                THEN [variant |-> "ToolCall",
                      name |-> Head(api.val.tool_calls).name,
                      parameters |-> Head(api.val.tool_calls).parameters,
                      text |-> ""]
                ELSE [variant |-> "Message", name |-> "", parameters |-> "",
                      text |-> api.val.text],
             raw_response |-> api.val])
    ELSE ProviderError("provider error")

\* The match on the classified response.
completion_match(api) ==
    IF api.variant = "Ok"
    THEN Ok(CompletionResponse_from(api.val))
    ELSE ProviderError(api.message)

completion_outcome(r) ==
    IF Received(r).step = "parsed"
    THEN completion_match(Received(r).api)
    ELSE ReqwestError(Received(r).step)

CompletionModels == {"command-r"}

-----------------------------------------------------------------------------
(* The operations *)

InitWith(urls) ==
    /\ base_url \in urls
    /\ pc = "idle"
    /\ op = "none"
    /\ input = [none |-> TRUE]
    /\ wire = <<>>
    /\ resp = NoResponse
    /\ result = NoResult

\* "...".parse::<CohereEmbeddingModel>()
FromStr ==
    /\ pc = "idle"
    /\ \E s \in ModelStrings :
          /\ input' = [s |-> s]
          /\ result' = from_str(s)
    /\ op' = "from_str"
    /\ pc' = "done"
    /\ UNCHANGED <<base_url, wire, resp>>

\* embed_documents up to the await of send(): the request goes out.
EmbedSend ==
    /\ pc = "idle"
    /\ \E model \in Models, input_type \in InputTypes, documents \in Documents :
          /\ input' = [model |-> model, input_type |-> input_type, documents |-> documents]
          /\ wire' = Append(wire, embed_request(base_url, model, input_type, documents))
    /\ op' = "embed_documents"
    /\ pc' = "awaiting"
    /\ UNCHANGED <<base_url, resp, result>>

\* completion up to the await of send(): the json! body is built, which
\* converts the tools and may panic, and then the request goes out.
CompletionSend ==
    /\ pc = "idle"
    /\ \E model \in CompletionModels, req \in CompletionRequests :
          /\ input' = [model |-> model, request |-> req]
          /\ IF request_panics(req)
             THEN /\ pc' = "panicked"
                  /\ wire' = wire
             ELSE /\ pc' = "awaiting"
                  /\ wire' = Append(wire, chat_request(base_url, model, req))
    /\ op' = "completion"
    /\ UNCHANGED <<base_url, resp, result>>

\* The vendor (or the transport) answers the request on the wire.
Respond ==
    /\ pc = "awaiting"
    /\ resp' \in IF op = "embed_documents"
                 THEN ResponsesOf(EmbedPayloads, NoEmbedPayload)
                 ELSE ResponsesOf(ChatPayloads, NoChatPayload)
    /\ pc' = "arrived"
    /\ UNCHANGED <<base_url, op, input, wire, result>>

\* embed_documents after the await: status check, parse, match.
EmbedReceive ==
    /\ pc = "arrived"
    /\ op = "embed_documents"
    /\ result' = embed_outcome(input.documents, resp)
    /\ pc' = "done"
    /\ UNCHANGED <<base_url, op, input, wire, resp>>

\* completion after the await: status check, parse, match.
CompletionReceive ==
    /\ pc = "arrived"
    /\ op = "completion"
    /\ result' = completion_outcome(resp)
    /\ pc' = "done"
    /\ UNCHANGED <<base_url, op, input, wire, resp>>

Init == InitWith(ClientUrls)

Next ==
    \/ FromStr
    \/ EmbedSend
    \/ CompletionSend
    \/ Respond
    \/ EmbedReceive
    \/ CompletionReceive

Spec == Init /\ [][Next]_vars

\* Once the response has arrived nothing suspends the call again: the rest
\* of embed_documents and of completion is straight-line code.
FairSpec == Spec /\ WF_vars(EmbedReceive) /\ WF_vars(CompletionReceive)

\* Client::post called on a client built with any base URL.
Post ==
    /\ pc = "idle"
    /\ \E path \in Paths :
          /\ input' = [path |-> path]
          /\ result' = Ok(post(base_url, path))
    /\ op' = "post"
    /\ pc' = "done"
    /\ UNCHANGED <<base_url, wire, resp>>

InitUrl == InitWith(BaseUrls)

NextUrl == Post

SpecUrl == InitUrl /\ [][NextUrl]_vars

\* ToolDefinition::from called on any generic tool definition.
Convert ==
    /\ pc = "idle"
    /\ \E tool \in ToolDefs :
          /\ input' = [tool |-> tool]
          /\ IF ToolDefinition_from(tool).kind = "panic"
             THEN /\ pc' = "panicked"
                  /\ result' = result
             ELSE /\ pc' = "done"
                  /\ result' = ToolDefinition_from(tool)
    /\ op' = "convert"
    /\ UNCHANGED <<base_url, wire, resp>>

InitTool == InitWith({COHERE_API_BASE_URL})

NextTool == Convert

SpecTool == InitTool /\ [][NextTool]_vars

-----------------------------------------------------------------------------
(* Vocabulary of the properties *)

EmbedDone == op = "embed_documents" /\ pc = "done"

ChatDone == op = "completion" /\ pc = "done"

CallDone == EmbedDone \/ ChatDone

\* The response came with a status that is not 4xx/5xx and a body that was
\* read to its end, so the body was handed to the parser.
BodyParsed ==
    /\ resp.kind = "response"
    /\ ~(resp.status >= 400 /\ resp.status <= 599)
    /\ resp.readable

FitsSuccess == resp.body.payload.present

FitsErrorOnly == ~resp.body.payload.present /\ resp.body.message.tag = "string"

FitsNeither == ~resp.body.payload.present /\ resp.body.message.tag # "string"

IsErr(r, err) == r.kind = "Err" /\ r.err = err

-----------------------------------------------------------------------------
(* C1 *)

\* C1: when the response is a success envelope carrying M embeddings for N
\* documents and M # N, embed_documents fails with DocumentError naming N
\* and M; and whatever the response, a list it returns has exactly N
\* entries, never a partial, truncated or padded one.
C1_CountMismatchFails ==
    /\ (EmbedDone /\ BodyParsed /\ FitsSuccess
            /\ Len(resp.body.payload.val) # Len(input.documents))
        => /\ IsErr(result, "DocumentError")
           /\ result.info = <<Len(input.documents), Len(resp.body.payload.val)>>
    /\ (EmbedDone /\ result.kind = "Ok")
        => /\ Len(result.val) = Len(input.documents)
           /\ Len(result.val) = Len(resp.body.payload.val)

C1_Witness ==
    /\ EmbedDone /\ BodyParsed /\ FitsSuccess
    /\ Len(input.documents) = 2
    /\ Len(resp.body.payload.val) = 1
    /\ IsErr(result, "DocumentError")

-----------------------------------------------------------------------------
(* C2 *)

\* C2: when the response is a success envelope with as many embeddings as
\* documents, embed_documents returns a list of that length whose i-th entry
\* pairs the i-th input document with the i-th returned embedding.
C2_ZipPreservesOrder ==
    (EmbedDone /\ BodyParsed /\ FitsSuccess
        /\ Len(resp.body.payload.val) = Len(input.documents))
    => /\ result.kind = "Ok"
       /\ Len(result.val) = Len(input.documents)
       /\ \A i \in 1..Len(input.documents) :
             /\ result.val[i].document = input.documents[i]
             /\ result.val[i].vec = resp.body.payload.val[i]

C2_Witness ==
    /\ EmbedDone /\ BodyParsed /\ FitsSuccess
    /\ input.documents = <<"a", "b">>
    /\ resp.body.payload.val = << <<2>>, <<1>> >>
    /\ result.kind = "Ok"

-----------------------------------------------------------------------------
(* C3 *)

\* C3: for a vendor completion response, the choice is the tool-call variant
\* with the name and parameters of the first tool call when tool_calls is
\* not empty, whatever the text and the later tool calls are; it is the
\* message variant carrying exactly text when tool_calls is empty; and the
\* raw response is returned unchanged beside the choice.
C3_FirstToolCallOrText ==
    (ChatDone /\ BodyParsed /\ FitsSuccess)
    => /\ result.kind = "Ok"
       /\ result.val.raw_response = resp.body.payload.val
       /\ Len(resp.body.payload.val.tool_calls) > 0
            => /\ result.val.choice.variant = "ToolCall"
               /\ result.val.choice.name = resp.body.payload.val.tool_calls[1].name
               /\ result.val.choice.parameters
                    = resp.body.payload.val.tool_calls[1].parameters
       /\ Len(resp.body.payload.val.tool_calls) = 0
            => /\ result.val.choice.variant = "Message"
               /\ result.val.choice.text = resp.body.payload.val.text

C3_Witness ==
    /\ ChatDone /\ BodyParsed /\ FitsSuccess
    /\ resp.body.payload.val.text = "hello"
    /\ Len(resp.body.payload.val.tool_calls) = 2
    /\ resp.body.payload.val.tool_calls[1].name = "search"
    /\ resp.body.payload.val.tool_calls[2].name = "other"
    /\ result.kind = "Ok"
    /\ result.val.choice.variant = "ToolCall"
    /\ result.val.choice.name = "search"

-----------------------------------------------------------------------------
(* C4 *)

\* C4 as stated: whenever the vendor answers a call with an error envelope
\* (a body that does not fit the success schema and carries a message
\* string), the call fails with a provider error carrying that message.
C4_Original ==
    (CallDone /\ resp.kind = "response" /\ resp.readable /\ FitsErrorOnly)
    => /\ IsErr(result, "ProviderError")
       /\ result.info = resp.body.message.s

\* C4, amended: whenever the vendor answers a call with an error envelope
\* under a status that is not 4xx/5xx, the call fails with a provider error
\* whose content is exactly the vendor's message string.
C4_ProviderErrorVerbatim ==
    (CallDone /\ BodyParsed /\ FitsErrorOnly)
    => /\ IsErr(result, "ProviderError")
       /\ result.info = resp.body.message.s

C4_Witness ==
    /\ ChatDone /\ BodyParsed /\ FitsErrorOnly
    /\ resp.body.message.s = "invalid api token"
    /\ IsErr(result, "ProviderError")
    /\ result.info = "invalid api token"

-----------------------------------------------------------------------------
(* C5 *)

\* C5: a body handed to the parser is classified success first: one that
\* fits the success schema is treated as a success even when it carries a
\* message field; one that fits only the error schema gives a provider
\* error; one that fits neither makes the call fail with the parser's error,
\* which is not the provider error.  Whatever the status, a body that fits
\* neither schema gives neither a provider error nor a success result.
C5_TwoPhaseClassification ==
    /\ (CallDone /\ BodyParsed /\ FitsSuccess)
        => (result.kind = "Ok" \/ IsErr(result, "DocumentError"))
    /\ (CallDone /\ BodyParsed /\ FitsErrorOnly)
        => IsErr(result, "ProviderError")
    /\ (CallDone /\ BodyParsed /\ FitsNeither)
        => (IsErr(result, "ReqwestError") /\ result.info = "decode")
    /\ (CallDone /\ resp.kind = "response" /\ resp.readable /\ FitsNeither)
        => (result.kind = "Err" /\ result.err # "ProviderError")

C5_Witness ==
    /\ ChatDone /\ BodyParsed /\ FitsNeither
    /\ resp.status = 200
    /\ resp.body.message.tag = "other"
    /\ IsErr(result, "ReqwestError")
    /\ result.info = "decode"

-----------------------------------------------------------------------------
(* C6 *)

RECURSIVE StripTrailing(_)
StripTrailing(s) ==
    IF Len(s) > 0 /\ s[Len(s)] = "/" THEN StripTrailing(SubSeq(s, 1, Len(s) - 1)) ELSE s

IsPrefix(p, s) == Len(p) <= Len(s) /\ SubSeq(s, 1, Len(p)) = p

HasDoubleSlash(s) == \E i \in 1..(Len(s) - 1) : s[i] = "/" /\ s[i + 1] = "/"

\* C6: the URL of Client::post is base_url joined with path: base_url up to
\* its trailing separators is left as given (its scheme separator "://"
\* included), and what follows it holds no run of two or more "/".
C6_Original ==
    (op = "post" /\ pc = "done")
    => /\ IsPrefix(StripTrailing(base_url), result.val)
       /\ ~HasDoubleSlash(SubSeq(result.val, Len(StripTrailing(base_url)) + 1,
                                  Len(result.val)))

-----------------------------------------------------------------------------
(* C7 *)

\* The malformed tool definitions: parameters has no properties, properties
\* is not an object, or some parameter lacks a string description or lacks
\* a type.
Malformed(tool) ==
    \/ tool.parameters.properties.tag # "object"
    \/ \E n \in DOMAIN tool.parameters.properties.obj :
          \/ tool.parameters.properties.obj[n].description.tag # "string"
          \/ tool.parameters.properties.obj[n].type.tag = "absent"

\* The schema types the type rule speaks of: a single type string, or an
\* array of type strings.
TypeCovered(type) ==
    \/ type.tag = "string"
    \/ type.tag = "array" /\ \A i \in 1..Len(type.a) : type.a[i].isStr

NonNull(type) == {i \in 1..Len(type.a) : type.a[i].s # "null"}

FirstNonNull(type) == CHOOSE i \in NonNull(type) : \A j \in NonNull(type) : i <= j

SixOrString(s) ==
    IF s \in {"string", "number", "integer", "boolean", "array", "object"}
    THEN s ELSE "string"

ExpectedType(type) ==
    IF type.tag = "string" THEN SixOrString(type.s)
    ELSE IF NonNull(type) = {} THEN "string"
    ELSE SixOrString(type.a[FirstNonNull(type)].s)

RequiredNames(tool) ==
    IF tool.parameters.required.tag = "array"
    THEN {tool.parameters.required.a[i].s : i \in
            {j \in 1..Len(tool.parameters.required.a) : tool.parameters.required.a[j].isStr}}
    ELSE {}

\* C7: the conversion of a well-formed tool definition yields a parameter
\* map with exactly one entry per key of parameters.properties; an entry is
\* required iff its name is in parameters.required (none is when there is
\* no required list); its type is the schema type when that is one of the
\* six known names, "string" for another type string, and for an array of
\* type strings the mapping of its first entry that is not "null", "string"
\* when there is none.
C7_ToolConversion ==
    (op = "convert" /\ ~Malformed(input.tool))
    => /\ pc = "done"
       /\ result.kind = "Ok"
       /\ DOMAIN result.val.parameter_definitions
            = DOMAIN input.tool.parameters.properties.obj
       /\ \A n \in DOMAIN input.tool.parameters.properties.obj :
             /\ result.val.parameter_definitions[n].required
                    = (n \in RequiredNames(input.tool))
             /\ TypeCovered(input.tool.parameters.properties.obj[n].type)
                  => result.val.parameter_definitions[n].type
                        = ExpectedType(input.tool.parameters.properties.obj[n].type)

C7_Witness ==
    /\ op = "convert" /\ pc = "done"
    /\ DOMAIN input.tool.parameters.properties.obj = {"x", "y"}
    /\ input.tool.parameters.properties.obj["x"].type
            = ArrType(<<StrEntry("null"), StrEntry("integer")>>)
    /\ input.tool.parameters.properties.obj["y"].type = StrType("date")
    /\ input.tool.parameters.required = ArrRequired(<<StrEntry("x")>>)
    /\ result.val.parameter_definitions["x"].type = "integer"
    /\ result.val.parameter_definitions["x"].required
    /\ result.val.parameter_definitions["y"].type = "string"
    /\ ~result.val.parameter_definitions["y"].required

-----------------------------------------------------------------------------
(* C8 *)

\* C8: parsing the string Display renders for a model gives that model back,
\* no two models render to the same string, and parsing a string that no
\* model renders to fails with BadModel carrying that string.
C8_ModelStringBijection ==
    (op = "from_str" /\ pc = "done")
    => /\ \A m \in Models : fmt(m) = input.s => result = Ok(m)
       /\ (\A m \in Models : fmt(m) # input.s) => result = BadModel(input.s)

C8_Witness ==
    /\ op = "from_str" /\ pc = "done"
    /\ input.s = "embed-multilingual-light-v3.0"
    /\ result = Ok("EmbedMultilingualLightV3")

-----------------------------------------------------------------------------
(* C9 *)

TransportFailed ==
    /\ IsErr(result, "ReqwestError")
    /\ result.info \in {"send", "status"}

C9_State ==
    /\ Len(wire) <= 1
    /\ pc \in {"awaiting", "arrived"} => (Len(wire) = 1 /\ result = NoResult)
    /\ (CallDone /\ (resp.kind = "send_failed"
                        \/ (resp.kind = "response"
                                /\ resp.status >= 400 /\ resp.status <= 599)))
        => TransportFailed
    /\ CallDone => (Len(wire) = 1 /\ result.kind \in {"Ok", "Err"})

-----------------------------------------------------------------------------
(* C10 *)

\* C10: a completion call whose request holds a malformed tool definition
\* panics: it returns no result, neither Ok nor Err, and no HTTP request was
\* sent; so a request on the wire is never built from a malformed tool.
C10_MalformedToolAborts ==
    op = "completion"
    => /\ (\E i \in 1..Len(input.request.tools) : Malformed(input.request.tools[i]))
            => (pc = "panicked" /\ wire = <<>> /\ result = NoResult)
       /\ wire # <<>>
            => \A i \in 1..Len(input.request.tools) : ~Malformed(input.request.tools[i])

C10_Witness ==
    /\ op = "completion" /\ pc = "panicked"
    /\ Len(input.request.tools) = 2
    /\ ~Malformed(input.request.tools[1])
    /\ Malformed(input.request.tools[2])
    /\ wire = <<>>
    /\ result = NoResult

====
